---------------------------- MODULE Spec2Model ----------------------------
(***************************************************************************)
(* A model of arz (src/src/main.rs): the run of main() over one input      *)
(* archive.  The run scans the archive's members, decodes every line of    *)
(* the .gps member into a GpsRecord, reports the record count and the      *)
(* maximum Delta speed, folds the records into track points and writes     *)
(* them to out.gpx.                                                         *)
(*                                                                         *)
(* Number representations.                                                  *)
(*  - TLC integers are 32 bits wide, the program's timestamps are i64.     *)
(*    An i64 is modelled as a "wide" value [hi, lo].  A wide value that    *)
(*    counts milliseconds denotes hi * (2^32 * 1000) + lo; a wide value    *)
(*    that counts seconds denotes hi * 2^32 + lo.  Division of the first   *)
(*    by 1000 gives the second exactly, and the low 32 bits of a seconds   *)
(*    value are its lo part, so `/ 1000`, `% 1000` and `as i32` are        *)
(*    computed exactly as the program computes them.  |lo| stays far       *)
(*    below 2^31 for the inputs enumerated here.                           *)
(*  - A u32 is modelled by its signed 32-bit representative (u for         *)
(*    u < 2^31, u - 2^32 otherwise).                                        *)
(*  - An f64 is modelled as [nan, v]: NaN, or the number v / 1000000       *)
(*    (fixed point, millionths).  Rounding of f64 arithmetic is not        *)
(*    modelled.                                                             *)
(***************************************************************************)
EXTENDS Integers, Sequences, FiniteSets, TLC

VARIABLES archive, input, pc, gps, acc, lineNo, records, max_speed,
          reported, points, last_h, foldIdx, outFile, failure

vars == <<archive, input, pc, gps, acc, lineNo, records, max_speed,
          reported, points, last_h, foldIdx, outFile, failure>>

\* Bound of the model: the number of lines of the .gps member.
MaxLines == 3

\* 1000 milliseconds per second (utc_timestamp / 1000, % 1000).
MillisPerSec == 1000
\* Nanoseconds per millisecond ((utc_timestamp % 1000) as u32 * 1_000_000).
NanosPerMilli == 1000000
\* Scale of the latitude/longitude change of a D line (millionths of a degree).
DegScale == 1000000
\* Scale of the elevation change of a D line (tenths of a metre).
EleScale == 10
\* chrono: FixedOffset::east accepts -86400 < secs < 86400.
EastLimit == 86400
\* chrono: a timestamp's nanosecond part must be below 2_000_000_000.
NsecsLimit == 2000000000
\* chrono: nanoseconds per second.
NanosPerSec == 1000000000

-----------------------------------------------------------------------------
(* Numbers *)

Wide(h, l) == [hi |-> h, lo |-> l]

\* i64 subtraction (local_timestamp - utc_timestamp).
WSub(a, b) == Wide(a.hi - b.hi, a.lo - b.lo)

WNeg(a) == a.hi < 0 \/ (a.hi = 0 /\ a.lo < 0)

\* Rust's i64 `/ 1000`: the quotient truncated toward zero; milliseconds to
\* seconds.  (\div rounds down, so a negative value is negated first.)
TruncDiv1000(a) ==
    IF WNeg(a) THEN Wide(a.hi, -((-a.lo) \div MillisPerSec))
               ELSE Wide(a.hi, a.lo \div MillisPerSec)

\* Rust's i64 `% 1000`: the remainder has the sign of the dividend.
TruncRem1000(a) == a.lo - MillisPerSec * TruncDiv1000(a).lo

\* `as i32` of an i64 count of seconds: the low 32 bits.
AsI32(s) == s.lo

\* `as u32` of a small i64, as its signed 32-bit representative.
AsU32(r) == r

\* u32 multiplication, wrapped to 32 bits (signed representative).  With
\* |r| < 1000 the product r * 1_000_000 lies within the signed 32-bit range.
MulU32(r, k) == r * k

\* The unsigned product exceeds u32 exactly when the factor was negative
\* before the cast (its u32 value is then at least 2^32 - 999).
MulU32Overflows(r, k) == r < 0 /\ k > 1

F64(x) == [nan |-> FALSE, v |-> x]
NaN == [nan |-> TRUE, v |-> 0]

\* f64 `+`.
FAdd(a, b) == IF a.nan \/ b.nan THEN NaN ELSE F64(a.v + b.v)

\* f64 `>`: false when either side is NaN.
FGt(a, b) == ~a.nan /\ ~b.nan /\ a.v > b.v

\* `n as f64 / scale` for an integer n and one of the scale constants.
ScaledF64(n, scale) == F64(n * (DegScale \div scale))


-----------------------------------------------------------------------------
(* Lines and fields.  A line is its tag and the fields after it             *)
(* (line.split(',')); a field is the text of one token, kept as what the    *)
(* parsers make of it.                                                      *)

IntTok(h, l) == [k |-> "int", hi |-> h, lo |-> l]   \* an integer literal
DecTok(x) == [k |-> "dec", hi |-> 0, lo |-> x]      \* a decimal literal, x millionths
NanTok == [k |-> "nan", hi |-> 0, lo |-> 0]         \* the text NaN
DateTok == [k |-> "date", hi |-> 0, lo |-> 0]       \* 2023-11-14T22:13:20.0
StrTok == [k |-> "str", hi |-> 0, lo |-> 0]         \* any other text

Line(t, f) == [tag |-> t, fields |-> f, readable |-> TRUE]
\* A line the reader cannot deliver (line.context("read error")?).
BadLine == [tag |-> "", fields |-> <<>>, readable |-> FALSE]

\* str::parse::<i64> and str::parse::<f64>: an integer literal parses as
\* either, a decimal literal and NaN only as f64.
Parses(t, ty) ==
    IF ty = "i64" THEN t.k = "int" ELSE t.k \in {"int", "dec", "nan"}

I64Of(t) == Wide(t.hi, t.lo)

F64Of(t) ==
    IF t.k = "nan" THEN NaN
    ELSE IF t.k = "int" THEN F64(t.lo * DegScale)
    ELSE F64(t.lo)

\* NaiveDateTime::parse_from_str(s, "%Y-%m-%dT%H:%M:%S%.f").
ParsesDate(t) == t.k = "date"

-----------------------------------------------------------------------------
(* Records *)

ZeroTime == [secs |-> Wide(0, 0), nanos |-> 0, off |-> 0]

\* enum GpsRecord.  One record shape for all variants; the fields a variant
\* does not have are zero.  The text carried by User, Version, AppVersion
\* and Device is not kept: nothing reads it.
GpsRecord(kd, ts, dur, la, lo, el, sp, hd) ==
    [kind |-> kd, timestamp |-> ts, duration |-> dur, lat |-> la, lon |-> lo,
     ele |-> el, speed |-> sp, heading |-> hd]

Inert(kd) == GpsRecord(kd, ZeroTime, 0, F64(0), F64(0), F64(0), F64(0), F64(0))

Coords(ts, la, lo, el) == GpsRecord("Coords", ts, 0, la, lo, el, F64(0), F64(0))

Delta(dur, la, lo, el, sp, hd) == GpsRecord("Delta", ZeroTime, dur, la, lo, el, sp, hd)

Ok(r) == [res |-> "ok", rec |-> r, msg |-> "", field |-> ""]
Err(m, f) == [res |-> "err", rec |-> Inert("User"), msg |-> m, field |-> f]
Panic(m) == [res |-> "panic", rec |-> Inert("User"), msg |-> m, field |-> ""]

\* The parse! macro applied to the leading fields in order: the index of
\* the first field that is missing or does not parse as its type, 0 if none.
FirstBad(f, types) ==
    LET bad == {i \in 1..Len(types) : i > Len(f) \/ ~Parses(f[i], types[i])}
    IN IF bad = {} THEN 0 ELSE CHOOSE i \in bad : \A j \in bad : i <= j

\* The error of parse! at field i: "missing field <name>" or "invalid <name>".
ParseErr(f, names, i) ==
    IF i > Len(f) THEN Err("missing field", names[i]) ELSE Err("invalid", names[i])

\* "U", "V", "A": one string field.
DecodeText(kd, name, f) ==
    IF Len(f) < 1 THEN Err("missing field", name) ELSE Ok(Inert(kd))

HTypes == <<"i64", "f64", "f64", "f64", "i64">>
HNames == <<"timestamp", "latitude", "longitude", "elevation", "local timestamp">>

\* FixedOffset::east(secs) panics unless -86400 < secs < 86400.
EastInRange(secs) == -EastLimit < secs /\ secs < EastLimit

\* tz.timestamp(secs, nsecs) panics unless nsecs < 2_000_000_000; nsecs is
\* a u32, given by its signed representative.
NsecsValid(n) == 0 <= n /\ n < NsecsLimit

\* The fixed-offset timestamp of an H line.  In a build with overflow
\* checks the multiplication panics when it overflows; in a build without,
\* it wraps and tz.timestamp panics on the wrapped value.
Timestamp(utc, off) ==
    [secs |-> TruncDiv1000(utc),
     nanos |-> MulU32(AsU32(TruncRem1000(utc)), NanosPerMilli),
     off |-> off]

\* "H".
DecodeH(f) ==
    LET bad == FirstBad(f, HTypes)
    IN  IF bad # 0 THEN ParseErr(f, HNames, bad)
        ELSE IF Len(f) < 6 THEN Err("missing field", "first datetime")
        ELSE IF Len(f) < 7 THEN Err("missing field", "second datetime")
        ELSE
          LET utc_timestamp == I64Of(f[1])
              local_timestamp == I64Of(f[5])
              tz_off_secs == TruncDiv1000(WSub(local_timestamp, utc_timestamp))
              timestamp == Timestamp(utc_timestamp, AsI32(tz_off_secs))
          IN  IF ~EastInRange(AsI32(tz_off_secs))
                THEN Panic("FixedOffset::east out of bounds")
              ELSE IF MulU32Overflows(AsU32(TruncRem1000(utc_timestamp)), NanosPerMilli)
                      \/ ~NsecsValid(timestamp.nanos)
                THEN Panic("invalid timestamp")
              ELSE IF ~ParsesDate(f[6]) THEN Err("invalid", "first datetime")
              ELSE IF ~ParsesDate(f[7]) THEN Err("invalid", "second datetime")
              ELSE Ok(Coords(timestamp, F64Of(f[2]), F64Of(f[3]), F64Of(f[4])))

DTypes == <<"i64", "i64", "i64", "i64", "f64", "f64">>
DNames == <<"milliseconds", "latitude change", "longitude change",
            "elevation change", "speed", "heading">>

\* "D".
DecodeD(f) ==
    LET bad == FirstBad(f, DTypes)
    IN  IF bad # 0 THEN ParseErr(f, DNames, bad)
        ELSE Ok(Delta(f[1].lo,
                      ScaledF64(f[2].lo, DegScale),
                      ScaledF64(f[3].lo, DegScale),
                      ScaledF64(f[4].lo, EleScale),
                      F64Of(f[5]),
                      F64Of(f[6])))

\* The body of the line loop: one line to a record, an error or a panic.
Decode(line) ==
    IF ~line.readable THEN Err("read error", "")
    ELSE IF line.tag = "U" THEN DecodeText("User", "username", line.fields)
    ELSE IF line.tag = "V" THEN DecodeText("Version", "version", line.fields)
    ELSE IF line.tag = "A" THEN DecodeText("AppVersion", "app version", line.fields)
    ELSE IF line.tag = "I" THEN Ok(Inert("Device"))
    ELSE IF line.tag = "H" THEN DecodeH(line.fields)
    ELSE IF line.tag = "D" THEN DecodeD(line.fields)
    ELSE Err("unrecognized tag", line.tag)

-----------------------------------------------------------------------------
(* Summary and reconstruction *)

\* gpx::Point as main() builds it.
Point(t, la, lo, el, sp, co) ==
    [time |-> t, lat |-> la, lon |-> lo, ele |-> el, speed |-> sp, course |-> co]

None == [some |-> FALSE, val |-> Point(ZeroTime, F64(0), F64(0), F64(0), F64(0), F64(0))]
Some(p) == [some |-> TRUE, val |-> p]

\* chrono's DateTime + Duration, for Duration::milliseconds(d): whole
\* seconds and a non-negative sub-second part, with carry.
AddDuration(t, d) ==
    LET n == t.nanos + (d % MillisPerSec) * NanosPerMilli
        carry == IF n >= NanosPerSec THEN 1 ELSE 0
    IN  [t EXCEPT !.secs = Wide(@.hi, @.lo + (d \div MillisPerSec) + carry),
                  !.nanos = n - carry * NanosPerSec]

IsDelta(r) == r.kind = "Delta"

\* records.iter().filter_map(Delta => Some(speed)): the speeds in order.
RECURSIVE Speeds(_)
Speeds(recs) ==
    IF recs = <<>> THEN <<>>
    ELSE IF IsDelta(Head(recs)) THEN <<Head(recs).speed>> \o Speeds(Tail(recs))
    ELSE Speeds(Tail(recs))

\* The comparator given to max_by: Greater if a > b, Less otherwise.
Compare(a, b) == IF FGt(a, b) THEN "Greater" ELSE "Less"

\* Iterator::max_by over a non-empty sequence: a left fold that keeps the
\* accumulated element only when it compares Greater than the next one.
RECURSIVE MaxByFrom(_, _)
MaxByFrom(best, rest) ==
    IF rest = <<>> THEN best
    ELSE MaxByFrom(IF Compare(best, Head(rest)) = "Greater" THEN best ELSE Head(rest),
                   Tail(rest))

\* .max_by(..): None on an empty sequence.
MaxBy(s) == IF s = <<>> THEN None ELSE [some |-> TRUE, val |-> MaxByFrom(Head(s), Tail(s))]

\* The point a Delta record gives from the anchor h.
DeltaPoint(h, rec) ==
    Point(AddDuration(h.time, rec.duration),
          FAdd(h.lat, rec.lat),
          FAdd(h.lon, rec.lon),
          FAdd(h.ele, rec.ele),
          rec.speed,
          rec.heading)

\* FoldRec with a slip: the anchor is pushed to the points as well.
FoldRecAnchorEmits(st, rec) ==
    IF rec.kind = "Coords" THEN
        LET h == Point(rec.timestamp, rec.lat, rec.lon, rec.ele, F64(0), F64(0))
        IN  [st EXCEPT !.last_h = Some(h), !.points = Append(@, h)]
    ELSE IF rec.kind = "Delta" THEN
        IF ~st.last_h.some THEN [st EXCEPT !.panicked = TRUE]
        ELSE [st EXCEPT !.points = Append(@, DeltaPoint(st.last_h.val, rec))]
    ELSE st

\* FoldRec with a slip: the point of a Delta becomes the next anchor.
FoldRecAccumulate(st, rec) ==
    IF rec.kind = "Coords" THEN
        [st EXCEPT !.last_h =
            Some(Point(rec.timestamp, rec.lat, rec.lon, rec.ele, F64(0), F64(0)))]
    ELSE IF rec.kind = "Delta" THEN
        IF ~st.last_h.some THEN [st EXCEPT !.panicked = TRUE]
        ELSE [st EXCEPT !.points = Append(@, DeltaPoint(st.last_h.val, rec)),
                        !.last_h = Some(DeltaPoint(st.last_h.val, rec))]
    ELSE st

\* One iteration of the reconstruction loop on the state [points, last_h,
\* panicked]: the match on the record.
FoldRec(st, rec) ==
    IF rec.kind = "Coords" THEN
        [st EXCEPT !.last_h =
            Some(Point(rec.timestamp, rec.lat, rec.lon, rec.ele, F64(0), F64(0)))]
    ELSE IF rec.kind = "Delta" THEN
        IF ~st.last_h.some THEN [st EXCEPT !.panicked = TRUE]
        ELSE LET point == DeltaPoint(st.last_h.val, rec)
             IN  [st EXCEPT !.points = Append(@, point)]
    ELSE st

-----------------------------------------------------------------------------
(* Inputs *)

\* The archive: whether it opens as a zip file, the kinds of its member
\* names (ends_with(".gps"), ends_with(".acc"), anything else) and whether
\* the .gps member can be opened.
Archive(r, m, g) == [readable |-> r, members |-> m, by_name |-> g]

GoodArchive == Archive(TRUE, {"gps", "acc"}, TRUE)

Archives ==
    {GoodArchive, Archive(FALSE, {}, TRUE), Archive(TRUE, {"gps", "acc"}, FALSE)}
    \cup {Archive(TRUE, m, TRUE) : m \in SUBSET {"gps", "acc", "other"}}

\* H,1000,10.0,20.0,5.0,3601000,<date>,<date>: one hour east.
H1 == Line("H", <<IntTok(0, 1000), DecTok(10000000), DecTok(20000000), DecTok(5000000),
                  IntTok(0, 3601000), DateTok, DateTok>>)
\* H,1500,-3.5,7.25,100,-1798500,..: half an hour west, utc not a whole second.
H2 == Line("H", <<IntTok(0, 1500), DecTok(-3500000), DecTok(7250000), IntTok(0, 100),
                  IntTok(0, -1798500), DateTok, DateTok>>)
\* H,0,..,4294970896000,..: local - utc = (2^32 + 3600) seconds.
HFar == Line("H", <<IntTok(0, 0), DecTok(10000000), DecTok(20000000), DecTok(5000000),
                    IntTok(1, 3600000), DateTok, DateTok>>)
\* H,-1,..,-1,..: one millisecond before the epoch.
HNeg == Line("H", <<IntTok(0, -1), DecTok(10000000), DecTok(20000000), DecTok(5000000),
                    IntTok(0, -1), DateTok, DateTok>>)
\* H,-1,..,-1,x,y: the same with datetime strings that do not parse.
HNegBadDate == Line("H", <<IntTok(0, -1), DecTok(10000000), DecTok(20000000),
                           DecTok(5000000), IntTok(0, -1), StrTok, StrTok>>)
\* H,1000,..,3601000,<date>,x: the second datetime does not parse.
HBadDate == Line("H", <<IntTok(0, 1000), DecTok(10000000), DecTok(20000000),
                        DecTok(5000000), IntTok(0, 3601000), DateTok, StrTok>>)
\* H,1000,abc: the latitude does not parse.
HBadLat == Line("H", <<IntTok(0, 1000), StrTok>>)
\* D,1000,500000,-250000,10,2.5,90
D1 == Line("D", <<IntTok(0, 1000), IntTok(0, 500000), IntTok(0, -250000), IntTok(0, 10),
                  DecTok(2500000), IntTok(0, 90)>>)
\* D,2700,-100,200,-35,5.0,180.5
D2 == Line("D", <<IntTok(0, 2700), IntTok(0, -100), IntTok(0, 200), IntTok(0, -35),
                  DecTok(5000000), DecTok(180500000)>>)
\* D,500,1,1,1,NaN,0.0
DNan == Line("D", <<IntTok(0, 500), IntTok(0, 1), IntTok(0, 1), IntTok(0, 1),
                    NanTok, DecTok(0)>>)
\* D,1.5,...: the milliseconds are no integer.
DBadInt == Line("D", <<DecTok(1500000), IntTok(0, 1), IntTok(0, 1), IntTok(0, 1),
                       DecTok(2500000), DecTok(0)>>)
\* D,1000,1,1: the elevation change is missing.
DShort == Line("D", <<IntTok(0, 1000), IntTok(0, 1), IntTok(0, 1)>>)

Lines ==
    {Line("U", <<StrTok>>), Line("V", <<StrTok>>), Line("A", <<StrTok>>),
     Line("I", <<StrTok, StrTok>>), Line("U", <<>>), Line("X", <<IntTok(0, 1), IntTok(0, 2)>>),
     BadLine, H1, H2, HFar, HNeg, HNegBadDate, HBadDate, HBadLat,
     D1, D2, DNan, DBadInt, DShort}

Streams == UNION {[1..n -> Lines] : n \in 0..MaxLines}

-----------------------------------------------------------------------------
(* The run of main() *)

NoFailure == [phase |-> "", msg |-> "", field |-> "", line |-> 0]
Failure(ph, m, f, l) == [phase |-> ph, msg |-> m, field |-> f, line |-> l]

\* The archive is read only up to the .gps member: a run whose archive is
\* rejected has no line stream.
Init ==
    /\ archive \in Archives
    /\ input \in (IF archive = GoodArchive THEN Streams ELSE {<<>>})
    /\ pc = "open"
    /\ gps = FALSE
    /\ acc = FALSE
    /\ lineNo = 0
    /\ records = <<>>
    /\ max_speed = None
    /\ reported = -1
    /\ points = <<>>
    /\ last_h = None
    /\ foldIdx = 0
    /\ outFile = "none"
    /\ failure = NoFailure

\* What opening the archive and choosing its members ends in: "" or the
\* message of the error returned.
OpenError(a) ==
    IF ~a.readable THEN "failed to read zip file"
    ELSE IF "other" \in a.members THEN "unrecognized filename"
    ELSE IF "gps" \notin a.members THEN "missing a .gps file in archive"
    ELSE IF "acc" \notin a.members THEN "missing a .acc file in archive"
    ELSE IF ~a.by_name THEN "failed to get .gps file from archive"
    ELSE ""

OpenArchive ==
    /\ pc = "open"
    /\ gps' = (archive.readable /\ "gps" \in archive.members)
    /\ acc' = (archive.readable /\ "acc" \in archive.members)
    /\ IF OpenError(archive) = ""
         THEN pc' = "decode" /\ failure' = failure
         ELSE pc' = "failed" /\ failure' = Failure("open", OpenError(archive), "", 0)
    /\ UNCHANGED <<archive, input, lineNo, records, max_speed, reported, points,
                   last_h, foldIdx, outFile>>

\* MoreLines with a slip: the loop ends one line early.
MoreLinesShort(n, in) == n + 1 < Len(in)

\* The line loop has another line to read.
MoreLines(n, in) == n < Len(in)

\* One iteration of the line loop.
ReadLine ==
    /\ pc = "decode"
    /\ MoreLines(lineNo, input)
    /\ lineNo' = lineNo + 1
    /\ LET d == Decode(input[lineNo + 1])
       IN  CASE d.res = "ok" ->
                  /\ records' = Append(records, d.rec)
                  /\ UNCHANGED <<pc, failure>>
             [] d.res = "err" ->
                  /\ pc' = "failed"
                  /\ failure' = Failure(IF d.msg = "read error" THEN "read" ELSE "decode",
                                         d.msg, d.field, lineNo + 1)
                  /\ UNCHANGED records
             [] d.res = "panic" ->
                  /\ pc' = "panicked"
                  /\ failure' = Failure("decode", d.msg, "", lineNo + 1)
                  /\ UNCHANGED records
    /\ UNCHANGED <<archive, input, gps, acc, max_speed, reported, points, last_h,
                   foldIdx, outFile>>

\* After the line loop: max_speed, then the two summary lines.  unwrap()
\* panics before anything is printed when there is no Delta record.
Summarize ==
    /\ pc = "decode"
    /\ ~MoreLines(lineNo, input)
    /\ LET m == MaxBy(Speeds(records))
       IN  IF m.some
             THEN /\ max_speed' = m
                  /\ reported' = Len(records)
                  /\ pc' = "fold"
                  /\ failure' = failure
             ELSE /\ pc' = "panicked"
                  /\ failure' = Failure("summary", "unwrap on None", "", 0)
                  /\ UNCHANGED <<max_speed, reported>>
    /\ UNCHANGED <<archive, input, gps, acc, lineNo, records, points, last_h,
                   foldIdx, outFile>>

\* The reconstruction loop has another record to fold.
MoreRecords(i, recs) == i < Len(recs)

\* One iteration of the reconstruction loop.
FoldRecord ==
    /\ pc = "fold"
    /\ MoreRecords(foldIdx, records)
    /\ LET st == FoldRec([points |-> points, last_h |-> last_h, panicked |-> FALSE],
                         records[foldIdx + 1])
       IN  IF st.panicked
             THEN /\ pc' = "panicked"
                  /\ failure' = Failure("fold", "unwrap on None", "", foldIdx + 1)
                  /\ UNCHANGED <<points, last_h, foldIdx>>
             ELSE /\ points' = st.points
                  /\ last_h' = st.last_h
                  /\ foldIdx' = foldIdx + 1
                  /\ UNCHANGED <<pc, failure>>
    /\ UNCHANGED <<archive, input, gps, acc, lineNo, records, max_speed, reported,
                   outFile>>

\* CanWrite with a slip: the file is created while records are being folded.
CanWriteEarly(p, i, recs) == p = "fold"

\* The output is written after the reconstruction loop has ended.
CanWrite(p, i, recs) == p = "fold" /\ ~MoreRecords(i, recs)

\* File::create("out.gpx")? and gpx::write_gpx(..)?: either may fail; a
\* failure of the second leaves the created file behind.
WriteGpx ==
    /\ CanWrite(pc, foldIdx, records)
    /\ \E created \in BOOLEAN, written \in BOOLEAN :
         IF ~created
           THEN /\ outFile' = outFile
                /\ pc' = "failed"
                /\ failure' = Failure("write", "File::create", "", 0)
         ELSE IF ~written
           THEN /\ outFile' = "created"
                /\ pc' = "failed"
                /\ failure' = Failure("write", "write_gpx", "", 0)
         ELSE /\ outFile' = "written"
              /\ pc' = "done"
              /\ failure' = failure
    /\ UNCHANGED <<archive, input, gps, acc, lineNo, records, max_speed, reported,
                   points, last_h, foldIdx>>

Next == OpenArchive \/ ReadLine \/ Summarize \/ FoldRecord \/ WriteGpx

Spec == Init /\ [][Next]_vars

-----------------------------------------------------------------------------
(* Properties *)

Terminal == pc \in {"done", "failed", "panicked"}

\* Every line has been decoded into a record.
DecodedAll ==
    /\ pc \notin {"open"}
    /\ failure.phase \notin {"open", "read", "decode"}
    /\ lineNo = Len(input)
    /\ Len(records) = Len(input)

\* A Delta record occurs before any Coords record.
DeltaBeforeAnchor(recs) ==
    \E i \in 1..Len(recs) :
        /\ IsDelta(recs[i])
        /\ \A j \in 1..(i - 1) : recs[j].kind # "Coords"

\* The instant of a timestamp in milliseconds since the epoch, as a wide value.
InstantMs(t) ==
    Wide(t.secs.hi, t.secs.lo * MillisPerSec + t.nanos \div NanosPerMilli)

\* The line does not follow the grammar of its tag: unknown tag, a required
\* field missing, or a field that does not parse as its declared type.
Malformed(line) ==
    /\ line.readable
    /\ \/ line.tag \notin {"U", "V", "A", "I", "H", "D"}
       \/ line.tag \in {"U", "V", "A"} /\ Len(line.fields) < 1
       \/ /\ line.tag = "H"
          /\ \/ Len(line.fields) < 7
             \/ \E i \in 1..5 : ~Parses(line.fields[i], HTypes[i])
             \/ ~ParsesDate(line.fields[6])
             \/ ~ParsesDate(line.fields[7])
       \/ /\ line.tag = "D"
          /\ \/ Len(line.fields) < 6
             \/ \E i \in 1..6 : ~Parses(line.fields[i], DTypes[i])

WellFormedH(line) == line.readable /\ line.tag = "H" /\ ~Malformed(line)

\* C1: a record stream with a Delta before any Anchor ends the run in an
\* explicit reconstruction error (a returned error), never in a panic.
C1_DeltaBeforeAnchorIsError ==
    (Terminal /\ DecodedAll /\ DeltaBeforeAnchor(records))
        => (pc = "failed" /\ failure.phase = "fold")

\* C2: a decoded stream without Delta records does not crash the run: the
\* points stay empty and the summary is an explicit result, not a panic.
C2_NoDeltaIsNoCrash ==
    (DecodedAll /\ Speeds(records) = <<>>) => (pc # "panicked" /\ points = <<>>)

\* The records the reconstruction loop has folded, and the Deltas among them.
Folded == SubSeq(records, 1, foldIdx)
FoldedDeltas == SelectSeq(Folded, IsDelta)

\* C3: after the fold of any prefix of the records there is one point per
\* Delta of the prefix, the i-th point made from the i-th Delta; records of
\* the other kinds add no point.
C3_OnePointPerDelta ==
    /\ Len(points) = Len(FoldedDeltas)
    /\ \A i \in 1..Len(points) :
          /\ points[i].speed = FoldedDeltas[i].speed
          /\ points[i].course = FoldedDeltas[i].heading

C3_Witness ==
    /\ foldIdx = 3
    /\ Len(points) = 2
    /\ points[1].speed # points[2].speed
    /\ \E k \in 1..3 : records[k].kind = "Coords"

\* The index in records of the Delta that made the i-th point, and of the
\* last Coords record before index j (0 if none).
DeltaIndex(i) ==
    CHOOSE j \in 1..foldIdx :
        /\ IsDelta(records[j])
        /\ Cardinality({k \in 1..j : IsDelta(records[k])}) = i
AnchorIndex(j) ==
    LET before == {k \in 1..(j - 1) : records[k].kind = "Coords"}
    IN  IF before = {} THEN 0 ELSE CHOOSE k \in before : \A m \in before : m <= k

\* C4: every point is the most recent Anchor before its Delta combined with
\* that Delta alone: time = anchor time + duration, lat/lon/ele = anchor
\* value + the Delta's change, speed and course from the Delta.
C4_PointIsAnchorPlusDelta ==
    \A i \in 1..Len(points) :
        LET j == DeltaIndex(i)
            a == AnchorIndex(j)
        IN  /\ a > 0
            /\ LET h == records[a]
                   d == records[j]
                   p == points[i]
               IN  /\ InstantMs(p.time) =
                        Wide(InstantMs(h.timestamp).hi, InstantMs(h.timestamp).lo + d.duration)
                   /\ p.time.off = h.timestamp.off
                   /\ ~p.lat.nan /\ p.lat.v = h.lat.v + d.lat.v
                   /\ ~p.lon.nan /\ p.lon.v = h.lon.v + d.lon.v
                   /\ ~p.ele.nan /\ p.ele.v = h.ele.v + d.ele.v
                   /\ p.speed = d.speed
                   /\ p.course = d.heading

\* Two equal Deltas after one Anchor have given two equal points.
C4_Witness ==
    /\ foldIdx = 3
    /\ records[1].kind = "Coords"
    /\ IsDelta(records[2])
    /\ records[2] = records[3]
    /\ Len(points) = 2
    /\ points[1] = points[2]
    /\ points[1].lat # records[1].lat

\* C5: a line that fails to decode ends the run in a decode error at that
\* line; no later line is decoded, no summary is reported, no point emitted.
C5_MalformedLineIsDecodeError ==
    \A k \in 1..lineNo :
        Malformed(input[k]) =>
            /\ pc = "failed"
            /\ failure.phase = "decode"
            /\ failure.line = k
            /\ lineNo = k
            /\ Len(records) = k - 1
            /\ ~max_speed.some
            /\ reported = -1
            /\ points = <<>>

\* C6: the output file exists only once every line has been decoded and
\* every record folded; a run that fails in the archive, the decoding, the
\* summary or the reconstruction has not created it.
C6_OutputOnlyAfterFold ==
    /\ outFile # "none" =>
          /\ DecodedAll
          /\ foldIdx = Len(records)
          /\ failure.phase \notin {"summary", "fold"}
    /\ failure.phase \in {"open", "read", "decode", "summary", "fold"} => outFile = "none"

C6_Witness == pc = "done" /\ outFile = "written" /\ Len(points) >= 2

\* C7: every well-formed H line gives an Anchor whose instant is exactly
\* utcEpochMillis milliseconds since the epoch.
C7_InstantIsUtcMillis ==
    \A k \in 1..lineNo :
        WellFormedH(input[k]) =>
            /\ k <= Len(records)
            /\ records[k].kind = "Coords"
            /\ InstantMs(records[k].timestamp) = I64Of(input[k].fields[1])

\* C8: the offset of every Anchor is (localEpochMillis - utcEpochMillis) /
\* 1000 seconds, truncated toward zero, without wrap-around.
C8_OffsetIsTruncatedQuotient ==
    \A k \in 1..Len(records) :
        records[k].kind = "Coords" =>
            Wide(0, records[k].timestamp.off) =
                TruncDiv1000(WSub(I64Of(input[k].fields[5]), I64Of(input[k].fields[1])))

\* C9: with at least one Delta, the reported maximum speed is the speed of
\* some Delta and no Delta has a greater speed, and the reported record
\* count is the number of decoded lines.
C9_MaxSpeedIsMaximum ==
    max_speed.some =>
        LET sp == Speeds(records)
        IN  /\ \E i \in 1..Len(sp) : sp[i] = max_speed.val
            /\ \A i \in 1..Len(sp) : ~FGt(sp[i], max_speed.val)
            /\ reported = Len(input)

\* Line j is a Delta with no Anchor line before it.
DeltaLineWithoutAnchor(j) ==
    input[j].tag = "D" /\ \A i \in 1..(j - 1) : input[i].tag # "H"

\* C10 (as stated): lines are decoded and folded one at a time, so the
\* failure reported belongs to the earliest offending line of the stream.
C10_EarliestOffendingLineReported ==
    (pc \in {"failed", "panicked"} /\ failure.line > 0) =>
        \A j \in 1..(failure.line - 1) :
            Decode(input[j]).res = "ok" /\ ~DeltaLineWithoutAnchor(j)

\* C10 (amended): the run is phased.  While lines are decoded nothing is
\* summarised or folded; the summary and the fold start only when every
\* line has been decoded; a decode failure is reported for the earliest
\* line the decoder rejects, whatever the records before it would do to the
\* reconstruction.
C10_Phased ==
    /\ pc = "decode" =>
          foldIdx = 0 /\ points = <<>> /\ ~last_h.some /\ ~max_speed.some
    /\ (max_speed.some \/ foldIdx > 0 \/ failure.phase \in {"summary", "fold", "write"}
          \/ pc \in {"fold", "done"}) =>
          lineNo = Len(input) /\ Len(records) = Len(input)
    /\ failure.phase \in {"read", "decode"} =>
          /\ foldIdx = 0 /\ points = <<>> /\ ~max_speed.some
          /\ failure.line = lineNo
          /\ Decode(input[failure.line]).res # "ok"
          /\ \A j \in 1..(failure.line - 1) : Decode(input[j]).res = "ok"

\* A decode failure at line 2 is reported although line 1 is a Delta
\* without an Anchor.
C10_Witness ==
    /\ pc = "failed"
    /\ failure.phase = "decode"
    /\ failure.line = 2
    /\ DeltaLineWithoutAnchor(1)

=============================================================================
